---------------------------- MODULE Spec2Model ----------------------------
(***************************************************************************)
(* Model of the Newsense chatbot: src/app.py (Streamlit session, directory *)
(* resolution, parallel fetch, history files) and src/chatbot_API.py       *)
(* (NewsenseClient.get_timeseries, interpret_relative_time, chatbot).      *)
(*                                                                         *)
(* Strings that the code inspects character by character (device names)    *)
(* are sequences of letters, a letter being a number of 1..AlphabetSize.   *)
(* Python's None is the value None; an exception that leaves a function is *)
(* the field raised = TRUE of what the function yields.                    *)
(***************************************************************************)
EXTENDS Integers, Sequences, FiniteSets, TLC

\* ------------------------------------------------------------------ bounds
AlphabetSize == 2
MaxNameLen == 3
MaxDirSize == 2
MaxPoints == 2
MaxTs == 2
MaxBatch == 3
MaxWideBatch == 6
MaxPhrases == 2
MaxTurns == 3
MaxSaves == 2
MaxDay == 1

\* ------------------------------------------------------- program constants
\* cutoff=0.7 of the inner get_close_matches call, in percent
FuzzyCutoff == 70
\* difflib's default cutoff (0.6) and n (3), used by the call that passes neither
DefaultCutoff == 60
DefaultN == 3

None == "None"

Min(x, y) == IF x <= y THEN x ELSE y
Max(x, y) == IF x >= y THEN x ELSE y
SetMax(S) == CHOOSE x \in S : \A y \in S : y <= x
SetMin(S) == CHOOSE x \in S : \A y \in S : x <= y

\* ============================================================== difflib
\* Python's order on str: lexicographic, a proper prefix is smaller.
RECURSIVE StrLess(_, _)
StrLess(x, y) ==
    IF y = <<>> THEN FALSE
    ELSE IF x = <<>> THEN TRUE
    ELSE IF Head(x) # Head(y) THEN Head(x) < Head(y)
    ELSE StrLess(Tail(x), Tail(y))

\* a[i..i+k-1] = b[j..j+k-1]
IsBlock(a, b, i, j, k) == \A t \in 0..(k - 1) : a[i + t] = b[j + t]

\* SequenceMatcher.find_longest_match(alo, ahi, blo, bhi) without junk: the
\* longest common block of a[alo..ahi] and b[blo..bhi]; of the longest ones
\* the one starting earliest in a, and of those the one starting earliest in b.
\* Positions are 1-based and ranges inclusive; <<alo, blo, 0>> when none.
find_longest_match(a, b, alo, ahi, blo, bhi) ==
    LET bs == {x \in (alo..ahi) \X (blo..bhi) \X (1..Len(a)) :
                  /\ x[1] + x[3] - 1 <= ahi
                  /\ x[2] + x[3] - 1 <= bhi
                  /\ IsBlock(a, b, x[1], x[2], x[3])}
    IN  IF bs = {} THEN <<alo, blo, 0>>
        ELSE LET k  == SetMax({x[3] : x \in bs})
                 i  == SetMin({x[1] : x \in {y \in bs : y[3] = k}})
                 j  == SetMin({x[2] : x \in {y \in bs : y[3] = k /\ y[1] = i}})
             IN  <<i, j, k>>

\* SequenceMatcher.get_matching_blocks: the total size of the blocks found by
\* taking the longest match and recursing to its left and to its right.
RECURSIVE matching_size(_, _, _, _, _, _)
matching_size(a, b, alo, ahi, blo, bhi) ==
    IF alo > ahi \/ blo > bhi THEN 0
    ELSE LET m == find_longest_match(a, b, alo, ahi, blo, bhi)
         IN  IF m[3] = 0 THEN 0
             ELSE m[3]
                  + matching_size(a, b, alo, m[1] - 1, blo, m[2] - 1)
                  + matching_size(a, b, m[1] + m[3], ahi, m[2] + m[3], bhi)

\* SequenceMatcher(None, a, b).ratio() = 2*M/T as the fraction <<2*M, T>>
\* (1.0 when both are empty).
ratio(a, b) ==
    LET T == Len(a) + Len(b)
    IN  IF T = 0 THEN <<1, 1>>
        ELSE <<2 * matching_size(a, b, 1, Len(a), 1, Len(b)), T>>

\* fraction r >= pct/100
RatioAtLeast(r, pct) == r[1] * 100 >= pct * r[2]
\* fraction r < fraction s
RatioLess(r, s) == r[1] * s[2] < s[1] * r[2]

\* heapq.nlargest(n, result) over the (score, x) pairs of the candidates in S,
\* as the sequence of their x: larger score first, equal scores by larger x.
RECURSIVE nlargest(_, _, _)
nlargest(n, S, score) ==
    IF n = 0 \/ S = {} THEN <<>>
    ELSE LET Less(x, y) == \/ RatioLess(score[x], score[y])
                           \/ /\ ~RatioLess(score[y], score[x])
                              /\ StrLess(x, y)
             m == CHOOSE x \in S : \A y \in S \ {x} : Less(y, x)
         IN  <<m>> \o nlargest(n - 1, S \ {m}, score)

\* difflib.get_close_matches(word, possibilities, n, cutoff): seq1 is the
\* candidate, seq2 the word. real_quick_ratio() and quick_ratio() are upper
\* bounds of ratio(), so the three tests together are ratio() >= cutoff.
get_close_matches(word, possibilities, n, cutoff) ==
    LET score == [x \in possibilities |-> ratio(x, word)]
    IN  nlargest(n, {x \in possibilities : RatioAtLeast(score[x], cutoff)}, score)

\* ================================================== directory resolution
\* dict.get(k): None on a missing key
DictGet(d, k) == IF k \in DOMAIN d THEN d[k] ELSE None

\* truth value of an id (a str or None)
Truthy(v) == v # None /\ v # ""

\* app.py line 83 (and 104):
\*   d_id = dev_map.get(d_name) or dev_map.get(
\*       get_close_matches(d_name, keys, n=1, cutoff=0.7)[0]
\*       if get_close_matches(d_name, keys) else None)
\* [0] of an empty list raises IndexError.
resolve_device(d_name, dev_map) ==
    LET exact == DictGet(dev_map, d_name)
        keys  == DOMAIN dev_map
    IN  IF Truthy(exact) THEN [raised |-> FALSE, d_id |-> exact]
        ELSE IF get_close_matches(d_name, keys, DefaultN, DefaultCutoff) # <<>>
        THEN LET best == get_close_matches(d_name, keys, 1, FuzzyCutoff)
             IN  IF best = <<>> THEN [raised |-> TRUE, d_id |-> None]
                 ELSE [raised |-> FALSE, d_id |-> DictGet(dev_map, best[1])]
        ELSE [raised |-> FALSE, d_id |-> None]

\* ============================================================ calendar
\* The proleptic Gregorian calendar of datetime: a date is [y, m, d], its
\* ordinal is date.toordinal() (day 1 is 0001-01-01).
IsLeap(y) == (y % 4 = 0) /\ ((y % 100 # 0) \/ (y % 400 = 0))

DaysInMonth(y, m) ==
    IF m = 2 THEN (IF IsLeap(y) THEN 29 ELSE 28)
    ELSE IF m \in {4, 6, 9, 11} THEN 30 ELSE 31

DaysBeforeYear(y) ==
    LET p == y - 1 IN 365 * p + (p \div 4) - (p \div 100) + (p \div 400)

RECURSIVE DaysBeforeMonth(_, _)
DaysBeforeMonth(y, m) ==
    IF m = 1 THEN 0 ELSE DaysBeforeMonth(y, m - 1) + DaysInMonth(y, m - 1)

IsDate(y, m, d) ==
    /\ y >= 1 /\ y <= 9999
    /\ m \in 1..12
    /\ d >= 1 /\ d <= DaysInMonth(y, m)

toordinal(dt) == DaysBeforeYear(dt.y) + DaysBeforeMonth(dt.y, dt.m) + dt.d

fromordinal(n) ==
    LET y == CHOOSE c \in ((n \div 366) + 1)..((n \div 365) + 1) :
                 DaysBeforeYear(c) < n /\ n <= DaysBeforeYear(c + 1)
        r == n - DaysBeforeYear(y)
        m == CHOOSE c \in 1..12 :
                 DaysBeforeMonth(y, c) < r /\ r <= DaysBeforeMonth(y, c) + DaysInMonth(y, c)
    IN  [y |-> y, m |-> m, d |-> r - DaysBeforeMonth(y, m)]

\* date.weekday(): Monday is 0
weekday(dt) == (toordinal(dt) + 6) % 7

\* A date string is [fmt, y, m, d]: the numbers y, m, d written in the layout
\* fmt (four digits for %Y, two for %m and %d), or fmt = "text" for a string
\* that has no date layout at all.
DateFormats == {"%Y-%m-%d", "%d/%m/%Y", "%d-%m-%Y"}

\* dt.strftime("%Y-%m-%d")
strftime(dt) == [fmt |-> "%Y-%m-%d", y |-> dt.y, m |-> dt.m, d |-> dt.d]

\* datetime.strptime(s, f): a ValueError (ok = FALSE) unless s is laid out as
\* f and names a day of the calendar.
strptime(s, f) ==
    IF s.fmt = f /\ IsDate(s.y, s.m, s.d)
    THEN [ok |-> TRUE, dt |-> [y |-> s.y, m |-> s.m, d |-> s.d]]
    ELSE [ok |-> FALSE, dt |-> [y |-> 1, m |-> 1, d |-> 1]]

\* Python's order on two strings in the layout %Y-%m-%d
DateStrLeq(s, t) ==
    \/ s.y < t.y
    \/ s.y = t.y /\ s.m < t.m
    \/ s.y = t.y /\ s.m = t.m /\ s.d <= t.d

\* ======================================= NewsenseClient.get_timeseries
\* What the remote service does with one GET: the transport fails
\* (requests raises), or it answers with a status code and a body; a body
\* that is JSON is a map from keys to lists of {ts, value} points.
TransportError == [kind |-> "transport_error"]
HttpText(status_code) ==
    [kind |-> "http", status_code |-> status_code, is_json |-> FALSE]
HttpJson(status_code, payload) ==
    [kind |-> "http", status_code |-> status_code, is_json |-> TRUE,
     payload |-> payload]

\* pd.to_numeric(v, errors="coerce") of one raw value: the number a numeric
\* string denotes, NaN for anything else.
NumericStrings == [s \in {"10", "25"} |-> IF s = "10" THEN 10 ELSE 25]
to_numeric(v) ==
    IF v \in DOMAIN NumericStrings
    THEN [nan |-> FALSE, x |-> NumericStrings[v]]
    ELSE [nan |-> TRUE, x |-> 0]

\* pd.to_datetime(ts, unit="ms"): the instant ts milliseconds after the epoch
to_datetime(ts) == [epoch_ms |-> ts]

\* the seconds of a day: the end bound is second SecondsPerDay - 1 of its
\* day, and timedelta.days counts whole multiples of it
SecondsPerDay == 86400

\* lines 83-116: the day bounds, the span and the query parameters; the
\* instant of a day bound is <<ordinal of the day, second of the day>>.
\* valid = FALSE is the ValueError of strptime.
timeseries_params_inclusive(key, start_date_str, end_date_str) ==
    LET s == strptime(start_date_str, "%Y-%m-%d")
        e == strptime(end_date_str, "%Y-%m-%d")
        duration_days ==
            ((toordinal(e.dt) - toordinal(s.dt)) * SecondsPerDay
                + (SecondsPerDay - 1)) \div SecondsPerDay
        agg == IF duration_days >= 7 THEN "AVG" ELSE None
        interval == IF duration_days >= 90 THEN 86400000 * 7
                    ELSE IF duration_days >= 30 THEN 86400000
                    ELSE IF duration_days >= 7 THEN 3600000
                    ELSE 0
        base == [startTs |-> <<toordinal(s.dt), 0>>,
                 endTs |-> <<toordinal(e.dt), SecondsPerDay - 1>>,
                 keys |-> key]
    IN  IF ~s.ok \/ ~e.ok THEN [valid |-> FALSE]
        ELSE IF agg # None /\ interval # 0
        THEN [valid |-> TRUE,
              params |-> base @@ [interval |-> interval, agg |-> agg]]
        ELSE [valid |-> TRUE, params |-> base @@ [limit |-> 10000]]
timeseries_params(key, start_date_str, end_date_str) ==
    LET s == strptime(start_date_str, "%Y-%m-%d")
        e == strptime(end_date_str, "%Y-%m-%d")
        duration_days ==
            ((toordinal(e.dt) - toordinal(s.dt)) * SecondsPerDay
                + (SecondsPerDay - 1)) \div SecondsPerDay
        agg == IF duration_days > 7 THEN "AVG" ELSE None
        interval == IF duration_days > 90 THEN 86400000 * 7
                    ELSE IF duration_days > 30 THEN 86400000
                    ELSE IF duration_days > 7 THEN 3600000
                    ELSE 0
        base == [startTs |-> <<toordinal(s.dt), 0>>,
                 endTs |-> <<toordinal(e.dt), SecondsPerDay - 1>>,
                 keys |-> key]
    IN  IF ~s.ok \/ ~e.ok THEN [valid |-> FALSE]
        ELSE IF agg # None /\ interval # 0
        THEN [valid |-> TRUE,
              params |-> base @@ [interval |-> interval, agg |-> agg]]
        ELSE [valid |-> TRUE, params |-> base @@ [limit |-> 10000]]

\* lines 123-131: the frame built from the points of the payload, without
\* the rows whose value is NaN, in the payload's order.
timeseries_frame(data) ==
    LET rows == [i \in 1..Len(data) |->
                    [ts |-> to_datetime(data[i].ts), value |-> to_numeric(data[i].value)]]
        kept == SelectSeq(rows, LAMBDA r : ~r.value.nan)
    IN  [i \in 1..Len(kept) |-> [ts |-> kept[i].ts, value |-> kept[i].value.x]]

\* get_timeseries(device_id, key, start_date_str, end_date_str) when the
\* remote service does resp. Only the ValueError of the date parsing is
\* caught; session.get and resp.json() are outside the try.
get_timeseries(device_id, key, start_date_str, end_date_str, resp) ==
    LET rq == timeseries_params(key, start_date_str, end_date_str)
        empty == [raised |-> FALSE, df |-> <<>>]
    IN  IF ~rq.valid THEN empty
        ELSE IF resp.kind = "transport_error" THEN [raised |-> TRUE, df |-> <<>>]
        ELSE IF resp.status_code # 200 THEN empty
        ELSE IF ~resp.is_json THEN [raised |-> TRUE, df |-> <<>>]
        ELSE LET data == IF key \in DOMAIN resp.payload THEN resp.payload[key] ELSE <<>>
             IN  IF data = <<>> THEN empty
                 ELSE [raised |-> FALSE, df |-> timeseries_frame(data)]

\* ============================================ interpret_relative_time
\* A text is the sequence of its words; the Vietnamese words are spelled in
\* Telex (hoom nay = "hôm nay", nafy = "này", ngafy = "ngày", tuaafn =
\* "tuần", thasng = "tháng", nawm = "năm", ngoasi = "ngoái", tuwf ddaafu =
\* "từ đầu", mowsi nhaast = "mới nhất", hieejn taji = "hiện tại", gias trij
\* bao nhieeu = "giá trị bao nhiêu", laafn cuoosi = "lần cuối"). A phrase is
\* in a text when its words occur in it one after the other.
Contains(text, phrase) ==
    \E i \in 1..(Len(text) - Len(phrase) + 1) :
        SubSeq(text, i, i + Len(phrase) - 1) = phrase

\* str.lower(), word by word
UpperWords == [w \in {"Hoom", "Nawm"} |-> IF w = "Hoom" THEN "hoom" ELSE "nawm"]
lower(text) ==
    [i \in 1..Len(text) |->
        IF text[i] \in DOMAIN UpperWords THEN UpperWords[text[i]] ELSE text[i]]

\* int() of the numerals
Numerals ==
    [w \in {"0", "1", "3", "9999"} |->
        IF w = "0" THEN 0 ELSE IF w = "1" THEN 1 ELSE IF w = "3" THEN 3 ELSE 9999]
TimeUnits == {"ngafy", "tuaafn", "thasng", "nawm"}
RecencyPhrases ==
    {<<"mowsi", "nhaast">>, <<"hieejn", "taji">>,
     <<"gias", "trij", "bao", "nhieeu">>, <<"laafn", "cuoosi">>,
     <<"is", "what", "value">>}

\* re.search(r"(\d+)\s*(ngày|tuần|tháng|năm)", text): the leftmost numeral
\* that a unit follows
numeric_match(text) ==
    LET hits == {i \in 1..(Len(text) - 1) :
                    text[i] \in DOMAIN Numerals /\ text[i + 1] \in TimeUnits}
    IN  IF hits = {} THEN [found |-> FALSE, n |-> 0, unit |-> ""]
        ELSE [found |-> TRUE, n |-> Numerals[text[SetMin(hits)]],
              unit |-> text[SetMin(hits) + 1]]

\* None where a date string is expected
NoneDate == [fmt |-> "None", y |-> 0, m |-> 0, d |-> 0]

\* now - timedelta(days=n), as a date
DaysBack(now, n) == fromordinal(toordinal(now) - n)

\* datetime.MINYEAR: datetime(year, 1, 1) raises ValueError below it
MINYEAR == 1

\* interpret_relative_time(query) on the day now: (start, end, is_latest),
\* or raised when line 171 builds a date before year MINYEAR
interpret_relative_time_week_first(query, now) ==
    LET text == lower(query)
        is_latest == \E p \in RecencyPhrases : Contains(text, p)
        m == numeric_match(text)
        range(s, e, l) == [raised |-> FALSE, start |-> strftime(s),
                           end |-> strftime(e), is_latest |-> l]
    IN  IF Contains(text, <<"hoom", "nay">>) THEN range(now, now, is_latest)
        ELSE IF Contains(text, <<"hoom", "qua">>)
        THEN range(DaysBack(now, 1), DaysBack(now, 1), is_latest)
        ELSE IF Contains(text, <<"tuaafn", "nafy">>)
        THEN range(DaysBack(now, weekday(now)), now, is_latest)
        ELSE IF m.found /\ m.unit = "nawm" /\ now.y - m.n + 1 < MINYEAR
        THEN [raised |-> TRUE, start |-> NoneDate, end |-> NoneDate,
              is_latest |-> is_latest]
        ELSE IF m.found
        THEN range(IF m.unit = "ngafy" THEN DaysBack(now, m.n)
                   ELSE IF m.unit = "tuaafn" THEN DaysBack(now, 7 * m.n)
                   ELSE IF m.unit = "thasng" THEN DaysBack(now, 30 * m.n)
                   ELSE [y |-> now.y - m.n + 1, m |-> 1, d |-> 1],
                   now, is_latest)
        ELSE IF Contains(text, <<"thasng", "nafy">>)
        THEN range([now EXCEPT !.d = 1], now, is_latest)
        ELSE IF Contains(text, <<"tuwf", "ddaafu", "nawm">>)
        THEN range([now EXCEPT !.d = 1, !.m = 1], now, is_latest)
        ELSE IF Contains(text, <<"nawm", "ngoasi">>)
        THEN range([y |-> now.y - 1, m |-> 1, d |-> 1],
                   [y |-> now.y - 1, m |-> 12, d |-> 31], is_latest)
        ELSE IF is_latest THEN range(DaysBack(now, 1), now, TRUE)
        ELSE [raised |-> FALSE, start |-> NoneDate, end |-> NoneDate,
              is_latest |-> FALSE]
interpret_relative_time(query, now) ==
    LET text == lower(query)
        is_latest == \E p \in RecencyPhrases : Contains(text, p)
        m == numeric_match(text)
        range(s, e, l) == [raised |-> FALSE, start |-> strftime(s),
                           end |-> strftime(e), is_latest |-> l]
    IN  IF Contains(text, <<"hoom", "nay">>) THEN range(now, now, is_latest)
        ELSE IF Contains(text, <<"hoom", "qua">>)
        THEN range(DaysBack(now, 1), DaysBack(now, 1), is_latest)
        ELSE IF m.found /\ m.unit = "nawm" /\ now.y - m.n + 1 < MINYEAR
        THEN [raised |-> TRUE, start |-> NoneDate, end |-> NoneDate,
              is_latest |-> is_latest]
        ELSE IF m.found
        THEN range(IF m.unit = "ngafy" THEN DaysBack(now, m.n)
                   ELSE IF m.unit = "tuaafn" THEN DaysBack(now, 7 * m.n)
                   ELSE IF m.unit = "thasng" THEN DaysBack(now, 30 * m.n)
                   ELSE [y |-> now.y - m.n + 1, m |-> 1, d |-> 1],
                   now, is_latest)
        ELSE IF Contains(text, <<"tuaafn", "nafy">>)
        THEN range(DaysBack(now, weekday(now)), now, is_latest)
        ELSE IF Contains(text, <<"thasng", "nafy">>)
        THEN range([now EXCEPT !.d = 1], now, is_latest)
        ELSE IF Contains(text, <<"tuwf", "ddaafu", "nawm">>)
        THEN range([now EXCEPT !.d = 1, !.m = 1], now, is_latest)
        ELSE IF Contains(text, <<"nawm", "ngoasi">>)
        THEN range([y |-> now.y - 1, m |-> 1, d |-> 1],
                   [y |-> now.y - 1, m |-> 12, d |-> 31], is_latest)
        ELSE IF is_latest THEN range(DaysBack(now, 1), now, TRUE)
        ELSE [raised |-> FALSE, start |-> NoneDate, end |-> NoneDate,
              is_latest |-> FALSE]

\* ================================================================ chatbot
\* A dict is a function on its keys.
DictSet(d, k, v) == [x \in DOMAIN d \cup {k} |-> IF x = k THEN v ELSE d[x]]

\* truth value of a date string or None
DateTruthy(s) == s.fmt # "None" /\ s.fmt # "empty"

\* result.get('start_date') and the like: None on a missing key
GetDate(result, k) == IF k \in DOMAIN result THEN result[k] ELSE NoneDate

\* result.get('is_latest') as a truth value
GetFlag(result, k) == IF k \in DOMAIN result THEN result[k] ELSE FALSE

\* chatbot.norm(s), lines 266-271: the first of the three layouts that
\* parses, rendered as %Y-%m-%d; None when s is empty or none parses.
norm(s) ==
    IF ~DateTruthy(s) THEN NoneDate
    ELSE IF strptime(s, "%Y-%m-%d").ok THEN strftime(strptime(s, "%Y-%m-%d").dt)
    ELSE IF strptime(s, "%d/%m/%Y").ok THEN strftime(strptime(s, "%d/%m/%Y").dt)
    ELSE IF strptime(s, "%d-%m-%Y").ok THEN strftime(strptime(s, "%d-%m-%Y").dt)
    ELSE NoneDate

\* lines 259-278: the extraction merged with the resolver's (rel_start,
\* rel_end, is_latest) on the day now
merge_model_dates_first(extracted, rel, now) ==
    LET r1 == IF rel.is_latest THEN DictSet(extracted, "is_latest", TRUE)
              ELSE extracted
        s == norm(GetDate(r1, "start_date"))
        e == norm(GetDate(r1, "end_date"))
    IN  DictSet(DictSet(r1, "start_date", IF DateTruthy(s) THEN s ELSE rel.start),
                "end_date", IF DateTruthy(e) THEN e ELSE rel.end)
merge(extracted, rel, now) ==
    LET r1 == IF rel.is_latest THEN DictSet(extracted, "is_latest", TRUE)
              ELSE extracted
    IN  IF DateTruthy(rel.start) /\ DateTruthy(rel.end)
        THEN DictSet(DictSet(r1, "start_date", rel.start), "end_date", rel.end)
        ELSE LET s == norm(GetDate(r1, "start_date"))
                 e == norm(GetDate(r1, "end_date"))
                 e2 == IF ~DateTruthy(e) THEN strftime(now) ELSE e
                 days == IF GetFlag(r1, "is_latest") THEN 1 ELSE 30
                 s2 == IF ~DateTruthy(s) THEN strftime(DaysBack(now, days)) ELSE s
             IN  DictSet(DictSet(r1, "start_date", s2), "end_date", e2)

\* json.dumps(result)
json_dumps(result) == [json |-> result]

\* What the language model answered, after the stripping of line 250:
\*   "json"      a JSON object and nothing else
\*   "embedded"  text around one JSON object: json.loads fails, the pattern
\*               {.*} finds the object
\*   "braces"    text with a brace-delimited span that is not valid JSON
\*   "text"      text without braces that is not JSON
\*   "nonobject" valid JSON that is not an object (a list, a string, null)
\* chatbot(query, kg_df, chat_history) on the day now, lines 231-282: what
\* it returns (ok: a result; ~ok: None) or that it raises, and the list
\* chat_history, which it appends to in place.
chatbot_new_list(query, chat_history, content, now) ==
    LET rel == interpret_relative_time(query, now)
        result == merge(content.obj, rel, now)
    IN  IF rel.raised
        THEN [raised |-> TRUE, ok |-> FALSE, result |-> <<>>,
              chat_history |-> chat_history]
        ELSE IF content.kind = "text"
        THEN [raised |-> FALSE, ok |-> FALSE, result |-> <<>>,
              chat_history |-> chat_history]
        ELSE IF content.kind \in {"braces", "nonobject"}
        THEN [raised |-> TRUE, ok |-> FALSE, result |-> <<>>,
              chat_history |-> chat_history]
        ELSE [raised |-> FALSE, ok |-> TRUE, result |-> result,
              chat_history |->
                  <<[role |-> "user", content |-> query],
                    [role |-> "assistant", content |-> json_dumps(result)]>>]
chatbot(query, chat_history, content, now) ==
    LET rel == interpret_relative_time(query, now)
        result == merge(content.obj, rel, now)
    IN  IF rel.raised
        THEN [raised |-> TRUE, ok |-> FALSE, result |-> <<>>,
              chat_history |-> chat_history]
        ELSE IF content.kind = "text"
        THEN [raised |-> FALSE, ok |-> FALSE, result |-> <<>>,
              chat_history |-> chat_history]
        ELSE IF content.kind \in {"braces", "nonobject"}
        THEN [raised |-> TRUE, ok |-> FALSE, result |-> <<>>,
              chat_history |-> chat_history]
        ELSE [raised |-> FALSE, ok |-> TRUE, result |-> result,
              chat_history |->
                  chat_history
                  \o <<[role |-> "user", content |-> query],
                       [role |-> "assistant", content |-> json_dumps(result)]>>]

\* ====================================================== fetch units
\* What the remote service answers for a (device id, key): this service has
\* points for "temperature", none for "humidity", and is unreachable for
\* "pressure".
RemoteAnswer(device_id, key) ==
    IF key = "temperature"
    THEN HttpJson(200, [temperature |-> <<[ts |-> 1, value |-> "10"],
                                          [ts |-> 2, value |-> "25"]>>])
    ELSE IF key = "humidity" THEN HttpJson(200, [humidity |-> <<>>])
    ELSE TransportError

\* fetch_data_parallel.fetch_single(info), lines 80-90. What it returns is a
\* list: <<>> for None, <<entry>> for an entry. The resolution of line 83 is
\* outside the try, the call of get_timeseries inside it.
fetch_single(info, map, start, end) ==
    LET r == resolve_device(info.Device, map)
        g == get_timeseries(r.d_id, info.var, start, end,
                            RemoteAnswer(r.d_id, info.var))
    IN  IF r.raised THEN [raised |-> TRUE, value |-> <<>>]
        ELSE IF Truthy(r.d_id) /\ ~g.raised /\ g.df # <<>>
        THEN [raised |-> FALSE,
              value |-> <<[label |-> <<info.Device, info.var>>, data |-> g.df,
                           v |-> info.var]>>]
        ELSE [raised |-> FALSE, value |-> <<>>]

\* the members of a set of numbers, in increasing order
RECURSIVE Ascending(_)
Ascending(S) ==
    IF S = {} THEN <<>> ELSE <<SetMin(S)>> \o Ascending(S \ {SetMin(S)})

\* fetch_status_parallel, lines 100-108: the requests grouped by resolved
\* device id, the groups in the order their ids first appear, each with the
\* name of its first request and the variables of all of them in order;
\* raised when a resolution raises (the loop runs on the calling thread,
\* outside any try).
group_members(infos, r, i) ==
    Ascending({j \in 1..Len(infos) :
                  /\ Truthy(r[j].d_id) /\ Truthy(infos[j].var)
                  /\ r[j].d_id = r[i].d_id})
group_order(infos, r) ==
    Ascending({i \in 1..Len(infos) :
                  /\ Truthy(r[i].d_id) /\ Truthy(infos[i].var)
                  /\ group_members(infos, r, i)[1] = i})
groups_of(infos, r, order) ==
    IF \E i \in 1..Len(infos) : r[i].raised
    THEN [raised |-> TRUE, groups |-> <<>>]
    ELSE [raised |-> FALSE,
          groups |-> [k \in 1..Len(order) |->
              [d_id |-> r[order[k]].d_id,
               name |-> infos[order[k]].Device,
               keys |-> [n \in 1..Len(group_members(infos, r, order[k])) |->
                            infos[group_members(infos, r, order[k])[n]].var]]]]
resolve_all(infos, map) ==
    [i \in 1..Len(infos) |-> resolve_device(infos[i].Device, map)]
device_groups(infos, map) ==
    groups_of(infos, resolve_all(infos, map),
              group_order(infos, resolve_all(infos, map)))

\* fetch_status_parallel.fetch_single(args), lines 110-115: the rows of
\* client.get_latest_telemetry, [] when it raises.
LatestOutcomes == {"rows", "empty", "raises"}
fetch_status_single(group, outcome) ==
    IF outcome = "rows"
    THEN [raised |-> FALSE,
          value |-> [i \in 1..Len(group.keys) |->
                        [d_id |-> group.d_id, key |-> group.keys[i]]]]
    ELSE [raised |-> FALSE, value |-> <<>>]

\* ThreadPoolExecutor(max_workers=5): a work item is taken off the queue
\* only by one of at most max_workers threads, each running one at a time.
max_workers == 5
CanStartUnbounded(inFlight) == TRUE
CanStart(inFlight) == inFlight < max_workers

\* the concatenation of the lists vs[1], ..., vs[n]
RECURSIVE Flatten(_)
Flatten(vs) == IF vs = <<>> THEN <<>> ELSE Head(vs) \o Flatten(Tail(vs))

\* ---------------------------------------------------------- input domains
Letters == 1..AlphabetSize
Names == UNION {[1..n -> Letters] : n \in 1..MaxNameLen}
Ids == {"id1", "id2", "id3"}
\* name -> id maps with unique ids (a device id is unique within a session)
Directories ==
    {d \in UNION {[K -> Ids] : K \in {S \in SUBSET Names : Cardinality(S) <= MaxDirSize}} :
        \A x, y \in DOMAIN d : x # y => d[x] # d[y]}

\* what get_timeseries is called with, and what the remote service does
SampleDay == [y |-> 2024, m |-> 1, d |-> 1]
DayPlus(n) == strftime(fromordinal(toordinal(SampleDay) + n))
StartDates ==
    {DayPlus(0), DayPlus(8),
     [fmt |-> "text", y |-> 0, m |-> 0, d |-> 0]}
EndDates ==
    {DayPlus(n) : n \in {0, 7, 8, 30, 31, 90, 91}}
    \cup {[fmt |-> "%Y-%m-%d", y |-> 2024, m |-> 2, d |-> 30],
          [fmt |-> "%d/%m/%Y", y |-> 2024, m |-> 1, d |-> 9]}
RawValues == {"10", "25", "abc"}
Points == [ts : 1..MaxTs, value : RawValues]
PointLists == UNION {[1..n -> Points] : n \in 0..MaxPoints}
Responses ==
    {TransportError, HttpText(200), HttpText(500),
     HttpJson(500, [temperature |-> <<>>]),
     HttpJson(200, [humidity |-> <<[ts |-> 1, value |-> "10"]>>])}
    \cup {HttpJson(200, [temperature |-> ps]) : ps \in PointLists}

\* the directory and the batches of the fetch orchestrator: the devices are
\* named by one more letter and their number
DeviceLetter == AlphabetSize + 1
DeviceName(i) == <<DeviceLetter, i>>
IdOf(i) == "id" \o ToString(i)
FetchDirectory ==
    [n \in {DeviceName(i) : i \in 1..MaxWideBatch} |-> IdOf(n[2])]
\* a key of the directory, a label 0.8 similar to it, one 0.667 similar to
\* it and one similar to nothing
NearMissLabel == <<DeviceLetter>>
FetchLabels == {DeviceName(1), DeviceName(1) \o <<1>>, NearMissLabel, <<1, 2>>}
Variables == {"temperature", "humidity", "pressure"}
SmallBatches ==
    UNION {[1..n -> [Device : FetchLabels, var : Variables]] : n \in 1..MaxBatch}
\* wide batches: MaxWideBatch requests, one per device, at most one of them with the
\* near-miss label instead
WideBatches ==
    {[i \in 1..MaxWideBatch |->
         [Device |-> IF i = p THEN NearMissLabel ELSE DeviceName(i),
          var |-> "temperature"]] : p \in 0..MaxWideBatch}
FetchStart == DayPlus(0)
FetchEnd == DayPlus(8)

VARIABLES
    \* --- directory resolution of one request
    d_name,         \* the requested device label
    dev_map,        \* st.session_state.device_map
    resolved,       \* what line 83 yielded, or NotCalled
    \* --- one call of get_timeseries
    ts_call,        \* [key, start, end, resp]: the arguments and the remote's answer
    ts_out,         \* what the call yielded, or NoCall
    request,        \* the params of the call's session.get, or NoRequest
    \* --- one call of fetch_data_parallel / fetch_status_parallel
    mode,           \* "data" (fetch_data_parallel) or "status" (fetch_status_parallel)
    devices,        \* the requests the call is given
    units,          \* the work items handed to executor.map, in order
    status,         \* per unit: "new", "queued", "running", "done", "failed", "cancelled"
    runs,           \* per unit: how many times a worker thread began it
    value,          \* per unit: the list its fetch_single returned
    submitted,      \* how many units executor.map has submitted
    collected,      \* how many results the calling thread has taken
    fpc,            \* where the calling thread is
    ret,            \* the list the call returned
    \* --- one call of chatbot()
    cb_call,        \* [query, content, now]: the text, the model's answer, the day
    cb_out,         \* what the call yielded, or NoAnswer
    \* --- one call of interpret_relative_time(), with cb_call's text and day
    irt_out,        \* what the call yielded, or NotInterpreted
    \* --- one Streamlit session
    chat_history,   \* st.session_state.chat_history
    active_page,    \* st.session_state.active_page
    turn,           \* the operation just done: which one, and for a prompt its
                    \* text, the kind of answer, the outcome, the sequence before
    saved,          \* the entries this session's saves have written, in order
    \* --- the history files under two sessions
    files,          \* per calendar day: the file history_<day>.json
    saver,          \* per session: where its save is, its entry, its daily_history
    clock,          \* datetime.now(), in days
    completed       \* the entries whose save has completed, in completion order

resolveVars == <<d_name, dev_map, resolved>>
clientVars == <<ts_call, ts_out, request>>
fetchVars == <<mode, devices, units, status, runs, value, submitted, collected,
               fpc, ret>>
callVars == <<cb_call, cb_out, irt_out>>
sessionVars == <<chat_history, active_page, turn, saved>>
historyVars == <<files, saver, clock, completed>>
notFetch == <<callVars, sessionVars, historyVars>>
notSession == <<resolveVars, clientVars, fetchVars, callVars, historyVars>>
vars == <<d_name, dev_map, resolved, ts_call, ts_out, request, mode, devices, units,
          status, runs, value, submitted, collected, fpc, ret, cb_call, cb_out, irt_out,
          chat_history, active_page, turn, saved, files, saver, clock, completed>>

NotCalled == [called |-> FALSE, raised |-> FALSE, d_id |-> None]
NoCall == [called |-> FALSE, raised |-> FALSE, df |-> <<>>]
NoRequest == [sent |-> FALSE]
NoAnswer == [called |-> FALSE, raised |-> FALSE, ok |-> FALSE, result |-> <<>>,
             chat_history |-> <<>>]
NoTurn == [n |-> 0, op |-> "start", prompt |-> <<>>, kind |-> "", outcome |-> "",
           before |-> <<>>, saved |-> FALSE]
Sessions == {1, 2}
NoEntry == [timestamp |-> 0, session |-> 0, n |-> 0]
IdleSaver == [pc |-> "idle", entry |-> NoEntry, daily_history |-> <<>>, saves |-> 0]
\* a history file: absent, or holding a JSON array, or opened for writing
\* and not yet written (its text is then not JSON)
NoFile == [exists |-> FALSE, is_json |-> FALSE, entries |-> <<>>]

NotInterpreted == [called |-> FALSE, raised |-> FALSE, start |-> NoneDate,
                   end |-> NoneDate, is_latest |-> FALSE]
IdleCall ==
    /\ cb_call = [query |-> <<>>, content |-> [kind |-> "text"],
                  now |-> [y |-> 2024, m |-> 1, d |-> 1]]
    /\ cb_out = NoAnswer
    /\ irt_out = NotInterpreted
IdleSession ==
    /\ chat_history = <<>>
    /\ active_page = "Chatbot"
    /\ turn = NoTurn
    /\ saved = <<>>
IdleHistory ==
    /\ files = [day \in 0..MaxDay |-> NoFile]
    /\ saver = [s \in Sessions |-> IdleSaver]
    /\ clock = 0
    /\ completed = <<>>

IdleResolve ==
    /\ d_name = <<1>>
    /\ dev_map = [k \in {} |-> "id1"]
    /\ resolved = NotCalled
IdleClient ==
    /\ ts_call = [key |-> "temperature", start |-> DayPlus(0), end |-> DayPlus(0),
                  resp |-> TransportError]
    /\ ts_out = NoCall
    /\ request = NoRequest
IdleFetch ==
    /\ mode = "data"
    /\ devices = <<>>
    /\ units = <<>>
    /\ status = <<>>
    /\ runs = <<>>
    /\ value = <<>>
    /\ submitted = 0
    /\ collected = 0
    /\ fpc = "idle"
    /\ ret = <<>>

\* ======================================== specification: one resolution
InitResolve ==
    /\ d_name \in Names
    /\ dev_map \in Directories
    /\ resolved = NotCalled
    /\ IdleClient
    /\ IdleFetch
    /\ IdleCall
    /\ IdleSession
    /\ IdleHistory

Resolve ==
    /\ ~resolved.called
    /\ resolved' = [called |-> TRUE] @@ resolve_device(d_name, dev_map)
    /\ UNCHANGED <<d_name, dev_map, clientVars, fetchVars, callVars, sessionVars,
                   historyVars>>

NextResolve == Resolve

SpecResolve == InitResolve /\ [][NextResolve]_vars

\* ------------------------------------------------------------------- C7
\* the keys of the directory whose similarity to the name is the highest
BestKeys(name, dir) ==
    {k \in DOMAIN dir :
        \A o \in DOMAIN dir : ~RatioLess(ratio(k, name), ratio(o, name))}

\* C7: the resolution of a name against a directory yields the id of the
\* exactly-equal key if there is one; otherwise the id of the key of highest
\* similarity if that similarity is >= 0.7; otherwise None; and it always
\* yields a value, it never raises.
C7_DirectoryResolution ==
    resolved.called =>
        /\ ~resolved.raised
        /\ IF d_name \in DOMAIN dev_map
           THEN resolved.d_id = dev_map[d_name]
           ELSE IF \E k \in BestKeys(d_name, dev_map) :
                      RatioAtLeast(ratio(k, d_name), FuzzyCutoff)
           THEN resolved.d_id \in {dev_map[k] : k \in BestKeys(d_name, dev_map)}
           ELSE resolved.d_id = None

\* ================================ specification: one get_timeseries call
InitClient ==
    /\ ts_call \in [key : {"temperature"}, start : StartDates, end : EndDates,
                    resp : Responses]
    /\ ts_out = NoCall
    /\ request = NoRequest
    /\ IdleResolve
    /\ IdleFetch
    /\ IdleCall
    /\ IdleSession
    /\ IdleHistory

CallGetTimeseries ==
    /\ ~ts_out.called
    /\ ts_out' = [called |-> TRUE]
                 @@ get_timeseries("id1", ts_call.key, ts_call.start, ts_call.end,
                                   ts_call.resp)
    /\ request' = LET rq == timeseries_params(ts_call.key, ts_call.start, ts_call.end)
                  IN  IF rq.valid THEN [sent |-> TRUE, params |-> rq.params]
                      ELSE NoRequest
    /\ UNCHANGED <<ts_call, resolveVars, fetchVars, callVars, sessionVars,
                   historyVars>>

NextClient == CallGetTimeseries

SpecClient == InitClient /\ [][NextClient]_vars

\* ------------------------------------------------------------------- C8
\* C8: get_timeseries never lets an exception reach its caller: whatever the
\* remote call does (transport error, non-200 status, a body that is not
\* JSON, a payload without the key, an empty payload, unparsable dates) it
\* returns an empty series, and it returns a non-empty series only on a 200
\* response with at least one point for the key.
C8_NeverPropagates ==
    ts_out.called =>
        /\ ~ts_out.raised
        /\ ts_out.df # <<>> =>
              /\ ts_call.resp.kind = "http"
              /\ ts_call.resp.status_code = 200
              /\ ts_call.resp.is_json
              /\ ts_call.key \in DOMAIN ts_call.resp.payload
              /\ ts_call.resp.payload[ts_call.key] # <<>>

\* ============ specification: one fetch_data_parallel / fetch_status_parallel
InitFetch ==
    /\ mode \in {"data", "status"}
    /\ devices \in SmallBatches \cup WideBatches
    /\ dev_map = FetchDirectory
    /\ units = <<>>
    /\ status = <<>>
    /\ runs = <<>>
    /\ value = <<>>
    /\ submitted = 0
    /\ collected = 0
    /\ fpc = "called"
    /\ ret = <<>>
    /\ d_name = <<1>>
    /\ resolved = NotCalled
    /\ IdleClient
    /\ IdleCall
    /\ IdleSession
    /\ IdleHistory

InFlight == Cardinality({i \in 1..Len(units) : status[i] = "running"})
Queued == {i \in 1..Len(units) : status[i] = "queued"}

\* Entering the call. fetch_data_parallel hands every request to the pool;
\* fetch_status_parallel first groups the requests on the calling thread
\* (lines 100-108), which raises when a resolution raises.
Enter ==
    /\ fpc = "called"
    /\ \E g \in {IF mode = "data" THEN [raised |-> FALSE, groups |-> devices]
                 ELSE device_groups(devices, dev_map)} :
           IF g.raised
           THEN /\ fpc' = "raised"
                /\ UNCHANGED <<units, status, runs, value>>
           ELSE /\ fpc' = "submit"
                /\ units' = g.groups
                /\ status' = [i \in 1..Len(g.groups) |-> "new"]
                /\ runs' = [i \in 1..Len(g.groups) |-> 0]
                /\ value' = [i \in 1..Len(g.groups) |-> <<>>]
    /\ UNCHANGED <<mode, devices, submitted, collected, ret, resolveVars, clientVars, notFetch>>

\* executor.map submits the work items one by one, in order, before it
\* returns the iterator of their results.
Submit ==
    /\ fpc = "submit"
    /\ IF submitted < Len(units)
       THEN /\ status' = [status EXCEPT ![submitted + 1] = "queued"]
            /\ submitted' = submitted + 1
            /\ fpc' = fpc
       ELSE /\ fpc' = "collect"
            /\ UNCHANGED <<status, submitted>>
    /\ UNCHANGED <<mode, devices, units, runs, value, collected, ret,
                   resolveVars, clientVars, notFetch>>

\* A worker thread takes the oldest queued work item.
WorkerStart ==
    /\ Queued # {}
    /\ CanStart(InFlight)
    /\ LET i == SetMin(Queued)
       IN  /\ status' = [status EXCEPT ![i] = "running"]
           /\ runs' = [runs EXCEPT ![i] = @ + 1]
    /\ UNCHANGED <<mode, devices, units, value, submitted, collected, fpc, ret,
                   resolveVars, clientVars, notFetch>>

\* The work item's fetch_single returns or raises.
WorkerFinish(i) ==
    /\ status[i] = "running"
    /\ \E r \in IF mode = "data"
                THEN {fetch_single(units[i], dev_map, FetchStart, FetchEnd)}
                ELSE {fetch_status_single(units[i], o) : o \in LatestOutcomes} :
           /\ status' = [status EXCEPT ![i] = IF r.raised THEN "failed" ELSE "done"]
           /\ value' = [value EXCEPT ![i] = r.value]
    /\ UNCHANGED <<mode, devices, units, runs, submitted, collected, fpc, ret,
                   resolveVars, clientVars, notFetch>>

\* The calling thread takes the next result of the iterator, in submission
\* order. A unit that raised re-raises here: the iterator's finally cancels
\* the futures not yet taken (a running one cannot be cancelled) and the
\* exception leaves the with block.
Collect ==
    /\ fpc = "collect"
    /\ IF collected = Len(units)
       THEN /\ fpc' = "shutdown"
            /\ UNCHANGED <<status, collected>>
       ELSE /\ status[collected + 1] \in {"done", "failed"}
            /\ IF status[collected + 1] = "done"
               THEN /\ collected' = collected + 1
                    /\ UNCHANGED <<status, fpc>>
               ELSE /\ fpc' = "shutdown_exc"
                    /\ status' = [i \in 1..Len(units) |->
                                    IF i > collected + 1 /\ status[i] = "queued"
                                    THEN "cancelled" ELSE status[i]]
                    /\ UNCHANGED collected
    /\ UNCHANGED <<mode, devices, units, runs, value, submitted, ret,
                   resolveVars, clientVars, notFetch>>

\* Leaving the with block: shutdown(wait=True) returns once no work item is
\* queued or running; then the call returns its list, or the exception
\* goes on to the caller.
PoolDrained == InFlight = 0 /\ Queued = {}
Shutdown ==
    /\ fpc \in {"shutdown", "shutdown_exc"}
    /\ PoolDrained
    /\ IF fpc = "shutdown"
       THEN /\ fpc' = "returned"
            /\ ret' = Flatten(value)
       ELSE /\ fpc' = "raised"
            /\ ret' = ret
    /\ UNCHANGED <<mode, devices, units, status, runs, value, submitted, collected,
                   resolveVars, clientVars, notFetch>>

NextFetch ==
    \/ Enter
    \/ Submit
    \/ WorkerStart
    \/ \E i \in 1..Len(units) : WorkerFinish(i)
    \/ Collect
    \/ Shutdown

SpecFetch == InitFetch /\ [][NextFetch]_vars

\* ------------------------------------------------------------------- C1
\* a label with no exactly-equal key and no key of similarity >= 0.7
Unresolvable(label, dir) ==
    /\ label \notin DOMAIN dir
    /\ \A k \in DOMAIN dir : ~RatioAtLeast(ratio(k, label), FuzzyCutoff)
\* a request whose label resolves and whose variable the remote service
\* has points for
Serves(info, dir) ==
    /\ ~Unresolvable(info.Device, dir)
    /\ \E k \in BestKeys(info.Device, dir) :
           LET a == RemoteAnswer(dir[k], info.var)
           IN  /\ a.kind = "http" /\ a.status_code = 200 /\ a.is_json
               /\ info.var \in DOMAIN a.payload
               /\ a.payload[info.var] # <<>>
OneUnresolvable ==
    /\ mode = "data"
    /\ \E i \in 1..Len(devices) :
           /\ Unresolvable(devices[i].Device, dev_map)
           /\ \A j \in 1..Len(devices) : j # i => Serves(devices[j], dev_map)

\* C1: when fetch_data_parallel is given N requests of which exactly one has
\* a label that cannot be resolved (whatever its similarity below 0.7) and
\* every other one resolves and fetches a non-empty series, the call raises
\* nothing and returns exactly N-1 series, none of them for the
\* unresolvable request.
C1_PartialFailureIsolation ==
    (OneUnresolvable /\ fpc \in {"returned", "raised"}) =>
        /\ fpc = "returned"
        /\ Len(ret) = Len(devices) - 1
        /\ \A e \in 1..Len(ret) :
               ~Unresolvable(ret[e].label[1], dev_map)

\* ------------------------------------------------------------------- C9
\* the requests of the status variant that belong to a group
Grouped ==
    {i \in 1..Len(devices) :
        /\ ~Unresolvable(devices[i].Device, dev_map)
        /\ Truthy(devices[i].var)}
RECURSIVE KeyCount(_)
KeyCount(gs) == IF gs = <<>> THEN 0 ELSE Len(Head(gs).keys) + KeyCount(Tail(gs))

\* C9: during a call of fetch_data_parallel or fetch_status_parallel at most
\* 5 work units are in flight at any moment; no unit is begun twice, and
\* when the call returns every request has been dispatched once (as a unit
\* of its own, or in the status variant as one variable of the one unit of
\* its device) and every unit has completed; the call ends, by returning or
\* by raising, only when no unit is queued or running.
C9_BoundedFanOut ==
    /\ InFlight <= max_workers
    /\ \A i \in 1..Len(units) : runs[i] <= 1
    /\ fpc = "returned" =>
          /\ \A i \in 1..Len(units) : status[i] = "done" /\ runs[i] = 1
          /\ mode = "data" => units = devices
          /\ mode = "status" => KeyCount(units) = Cardinality(Grouped)
    /\ fpc \in {"returned", "raised"} =>
          \A i \in 1..Len(units) : status[i] \notin {"queued", "running"}

\* the pool is full while a submitted unit waits in the queue
C9_PoolFullWitness ==
    /\ InFlight = max_workers
    /\ Queued # {}
    /\ fpc = "collect"

\* ========================================= specification: one chatbot call
\* The texts: up to MaxPhrases phrases, one after the other.
Phrases ==
    {<<"nhieejt", "ddooj">>, <<"hoom", "nay">>, <<"Hoom", "qua">>,
     <<"3", "ngafy">>, <<"1", "tuaafn">>, <<"1", "thasng">>,
     <<"0", "nawm">>, <<"1", "nawm">>, <<"3", "nawm">>, <<"9999", "nawm">>,
     <<"tuaafn", "nafy">>, <<"thasng", "nafy">>, <<"tuwf", "ddaafu", "nawm">>,
     <<"nawm", "ngoasi">>, <<"mowsi", "nhaast">>}
RECURSIVE Texts(_)
Texts(n) ==
    IF n = 0 THEN {<<>>}
    ELSE Texts(n - 1) \cup {t \o p : t \in Texts(n - 1), p \in Phrases}
Queries == Texts(MaxPhrases) \ {<<>>}

\* The days the call is made on: a Monday that is a 1 January, a 1 March of
\* a leap year, a Sunday that is a 31 December.
Nows ==
    {[y |-> 2024, m |-> 1, d |-> 1], [y |-> 2024, m |-> 3, d |-> 1],
     [y |-> 2023, m |-> 12, d |-> 31]}

\* The JSON objects of the language model: each of the four keys present or
\* not; a date is a string in one of the layouts or null.
ModelDates ==
    {[fmt |-> "%Y-%m-%d", y |-> 2023, m |-> 12, d |-> 20],
     [fmt |-> "%d/%m/%Y", y |-> 2023, m |-> 12, d |-> 25],
     NoneDate}
ModelDevices == {<<[Device |-> DeviceName(1), var |-> "temperature"]>>}
\* a key left out (<<>>) or given (<<value>>)
Optional(S) == {<<>>} \cup {<<v>> : v \in S}
ObjectOf(s, e, l, d) ==
    [k \in {x \in {"start_date"} : s # <<>>} \cup {x \in {"end_date"} : e # <<>>}
           \cup {x \in {"is_latest"} : l # <<>>} \cup {x \in {"devices"} : d # <<>>}
        |-> IF k = "start_date" THEN s[1]
            ELSE IF k = "end_date" THEN e[1]
            ELSE IF k = "is_latest" THEN l[1]
            ELSE d[1]]
Objects ==
    {ObjectOf(s, e, l, d) : s \in Optional(ModelDates), e \in Optional(ModelDates),
                            l \in Optional(BOOLEAN), d \in Optional(ModelDevices)}
Contents ==
    {[kind |-> k] : k \in {"text", "braces", "nonobject"}}
    \cup [kind : {"json", "embedded"}, obj : Objects]

InitCall ==
    /\ cb_call \in [query : Queries, content : Contents, now : Nows]
    /\ cb_out = NoAnswer
    /\ irt_out = NotInterpreted
    /\ IdleResolve
    /\ IdleClient
    /\ IdleFetch
    /\ IdleSession
    /\ IdleHistory

CallChatbot ==
    /\ ~cb_out.called
    /\ cb_out' = [called |-> TRUE]
                 @@ chatbot(cb_call.query, <<>>, cb_call.content, cb_call.now)
    /\ UNCHANGED <<cb_call, irt_out, resolveVars, clientVars, fetchVars,
                   sessionVars, historyVars>>

NextCall == CallChatbot

SpecCall == InitCall /\ [][NextCall]_vars

\* what interpret_relative_time yields for the call
Rel == interpret_relative_time(cb_call.query, cb_call.now)
ConcreteRange == DateTruthy(Rel.start) /\ DateTruthy(Rel.end)
Returned == cb_out.called /\ cb_out.ok

\* ------------------------------------------------------------------- C3
\* C3 (as claimed): whenever the resolver yields a concrete range, the
\* result's start_date, end_date and is_latest equal the resolver's three
\* values, whatever the language model extracted.
C3_OverridesEntirely ==
    (Returned /\ ConcreteRange) =>
        /\ cb_out.result["start_date"] = Rel.start
        /\ cb_out.result["end_date"] = Rel.end
        /\ "is_latest" \in DOMAIN cb_out.result
        /\ cb_out.result["is_latest"] = Rel.is_latest

\* C3 (amended): whenever the resolver yields a concrete range, the result's
\* start_date and end_date equal the resolver's; its is_latest is true when
\* the resolver's is true, and otherwise is what the language model
\* extracted (absent when the model left it out).
C3_DatesOverrideFlagRaised ==
    (Returned /\ ConcreteRange) =>
        /\ cb_out.result["start_date"] = Rel.start
        /\ cb_out.result["end_date"] = Rel.end
        /\ Rel.is_latest => cb_out.result["is_latest"] = TRUE
        /\ ~Rel.is_latest =>
              /\ "is_latest" \in DOMAIN cb_out.result
                    <=> "is_latest" \in DOMAIN cb_call.content.obj
              /\ "is_latest" \in DOMAIN cb_out.result =>
                    cb_out.result["is_latest"] = cb_call.content.obj["is_latest"]

\* the resolver has a range without a recency phrase while the model says
\* is_latest and gives dates of its own
C3_ModelFlagWitness ==
    /\ Returned /\ ConcreteRange /\ ~Rel.is_latest
    /\ {"is_latest", "start_date", "end_date"} \subseteq DOMAIN cb_call.content.obj
    /\ cb_call.content.obj["is_latest"] = TRUE
    /\ DateTruthy(norm(cb_call.content.obj["start_date"]))
    /\ cb_out.result["is_latest"] = TRUE

\* ------------------------------------------------------------------- C4
\* C4: every result chatbot() returns has start_date, end_date, is_latest
\* and devices present and non-null, and start_date <= end_date, for every
\* text and every JSON object of the language model.
C4_ResolvedQueryInvariant ==
    Returned =>
        /\ {"start_date", "end_date", "is_latest", "devices"}
              \subseteq DOMAIN cb_out.result
        /\ DateTruthy(cb_out.result["start_date"])
        /\ DateTruthy(cb_out.result["end_date"])
        /\ DateStrLeq(cb_out.result["start_date"], cb_out.result["end_date"])

\* ====================================== specification: one Streamlit session
\* The day of the session, the prompts the user types and the answers of
\* the language model.
Today == [y |-> 2024, m |-> 1, d |-> 1]
Prompts == {<<"nhieejt", "ddooj">>, <<"hoom", "nay">>}
FullObject ==
    ObjectOf(<<[fmt |-> "%Y-%m-%d", y |-> 2023, m |-> 12, d |-> 20]>>,
             <<[fmt |-> "%d/%m/%Y", y |-> 2023, m |-> 12, d |-> 25]>>,
             <<FALSE>>,
             <<<<[Device |-> DeviceName(1), var |-> "temperature"]>>>>)
Answers ==
    {[kind |-> k] : k \in {"text", "braces", "nonobject"}}
    \cup [kind : {"json", "embedded"}, obj : {FullObject}]
Pages == {"Chatbot", "History", "KG Editor"}

Init ==
    /\ IdleSession
    /\ IdleResolve
    /\ IdleClient
    /\ IdleFetch
    /\ IdleCall
    /\ IdleHistory

\* a script run that only renders the active page (lines 129-164, 175-198)
Rerun ==
    /\ turn.op # "rerun"
    /\ turn' = [NoTurn EXCEPT !.n = turn.n, !.op = "rerun"]
    /\ UNCHANGED <<chat_history, active_page, saved, notSession>>

\* lines 166-173: the prompt is appended, chatbot() is called with the
\* session's list, which it appends to in place, and a result is saved.
\* When chatbot() raises the script run ends there; the list stays as it is.
SubmitPrompt(prompt, content) ==
    /\ active_page = "Chatbot"
    /\ turn.n < MaxTurns
    /\ \E out \in {chatbot(prompt,
                           Append(chat_history,
                                  [role |-> "user", content |-> prompt]),
                           content, Today)} :
          /\ chat_history' = out.chat_history
          /\ saved' = IF out.ok
                      THEN Append(saved, [timestamp |-> [day |-> Today, n |-> turn.n + 1],
                                          query |-> prompt, response |-> out.result])
                      ELSE saved
          /\ turn' = [n |-> turn.n + 1, op |-> "prompt", prompt |-> prompt,
                      kind |-> content.kind,
                      outcome |-> IF out.raised THEN "raised"
                                  ELSE IF out.ok THEN "result" ELSE "none",
                      before |-> chat_history, saved |-> out.ok]
    /\ UNCHANGED <<active_page, notSession>>

\* lines 231-233: a sidebar button sets the page
SwitchPage(page) ==
    /\ active_page # page
    /\ active_page' = page
    /\ turn' = [NoTurn EXCEPT !.n = turn.n, !.op = "switch"]
    /\ UNCHANGED <<chat_history, saved, notSession>>

\* lines 235-237: 'Clear Current Chat'
ClearCurrentChat ==
    /\ chat_history' = <<>>
    /\ turn' = [NoTurn EXCEPT !.n = turn.n, !.op = "clear"]
    /\ UNCHANGED <<active_page, saved, notSession>>

Next ==
    \/ Rerun
    \/ \E prompt \in Prompts, content \in Answers : SubmitPrompt(prompt, content)
    \/ \E page \in Pages : SwitchPage(page)
    \/ ClearCurrentChat

Spec == Init /\ [][Next]_vars

\* s is an initial part of t
IsPrefix(s, t) == Len(s) <= Len(t) /\ SubSeq(t, 1, Len(s)) = s

\* ------------------------------------------------------------------- C2
\* C2: when the language model's output is neither JSON nor contains an
\* extractable JSON object (text without braces, or text whose
\* brace-delimited span is not valid JSON), the turn returns no result
\* without raising, the conversation sequence is what it was before the
\* prompt was submitted, and no history entry is saved.
C2_ParseFailureLeavesNoTrace ==
    (turn.op = "prompt" /\ turn.kind \in {"text", "braces"}) =>
        /\ turn.outcome = "none"
        /\ chat_history = turn.before
        /\ ~turn.saved

\* ------------------------------------------------------------------- C5
\* C5: after a successful turn the conversation sequence is the sequence
\* before the turn followed by exactly the user's entry and the
\* assistant's entry, in this order.
C5_TwoEntriesPerTurn ==
    (turn.op = "prompt" /\ turn.outcome = "result") =>
        /\ Len(chat_history) = Len(turn.before) + 2
        /\ IsPrefix(turn.before, chat_history)
        /\ chat_history[Len(turn.before) + 1] =
              [role |-> "user", content |-> turn.prompt]
        /\ chat_history[Len(turn.before) + 2].role = "assistant"

\* ------------------------------------------------------------------- C6
\* C6 (as claimed): at each step of a session the conversation sequence has
\* the sequence of the previous step as a prefix.
C6_AppendOnly == [][IsPrefix(chat_history, chat_history')]_vars

\* C6 (amended): at each step other than 'Clear Current Chat' the
\* conversation sequence has the sequence of the previous step as a prefix;
\* 'Clear Current Chat' makes it empty.
C6_AppendOnlyUntilCleared ==
    [][/\ turn'.op # "clear" => IsPrefix(chat_history, chat_history')
       /\ turn'.op = "clear" => chat_history' = <<>>]_vars

\* a turn has extended a sequence that already held an earlier turn
C6_GrownWitness ==
    /\ turn.op = "prompt"
    /\ turn.before # <<>>
    /\ Len(chat_history) > Len(turn.before)

\* =========== specification: save_chat_history_by_date under two sessions
\* Each session's script runs on a thread of its own; the steps of their
\* saves on the files interleave.
InitHistory ==
    /\ IdleHistory
    /\ IdleResolve
    /\ IdleClient
    /\ IdleFetch
    /\ IdleCall
    /\ IdleSession

notHistory == <<resolveVars, clientVars, fetchVars, callVars, sessionVars>>

\* line 52: the partition of an entry is the calendar date of its timestamp
date_str(entry) == entry.timestamp

\* app.py:172 and lines 48-53: the entry is stamped with datetime.now() and
\* save_chat_history_by_date is entered
StartSave(s) ==
    /\ saver[s].pc = "idle"
    /\ saver[s].saves < MaxSaves
    /\ saver' = [saver EXCEPT ![s] =
                    [@ EXCEPT !.pc = "read",
                              !.entry = [timestamp |-> clock, session |-> s,
                                         n |-> saver[s].saves + 1],
                              !.daily_history = <<>>]]
    /\ UNCHANGED <<files, clock, completed, notHistory>>

\* lines 55-60: the file, if it exists, is read; a file that is not JSON
\* makes json.load raise, which line 63 catches: the save ends there
ReadFile(s) ==
    /\ saver[s].pc = "read"
    /\ LET f == files[date_str(saver[s].entry)]
       IN  saver' = [saver EXCEPT ![s] =
                        IF f.exists /\ ~f.is_json
                        THEN [@ EXCEPT !.pc = "idle", !.saves = @ + 1]
                        ELSE [@ EXCEPT !.pc = "open",
                                       !.daily_history =
                                           Append(IF f.exists THEN f.entries ELSE <<>>,
                                                  saver[s].entry)]]
    /\ UNCHANGED <<files, clock, completed, notHistory>>

\* line 61: open(file_path, 'w') creates or truncates the file
OpenForWrite(s) ==
    /\ saver[s].pc = "open"
    /\ files' = [files EXCEPT ![date_str(saver[s].entry)] =
                    [exists |-> TRUE, is_json |-> FALSE, entries |-> <<>>]]
    /\ saver' = [saver EXCEPT ![s].pc = "dump"]
    /\ UNCHANGED <<clock, completed, notHistory>>

\* line 62: json.dump writes daily_history; the save has completed
Dump(s) ==
    /\ saver[s].pc = "dump"
    /\ files' = [files EXCEPT ![date_str(saver[s].entry)] =
                    [exists |-> TRUE, is_json |-> TRUE,
                     entries |-> saver[s].daily_history]]
    /\ saver' = [saver EXCEPT ![s] = [@ EXCEPT !.pc = "idle", !.saves = @ + 1]]
    /\ completed' = Append(completed, saver[s].entry)
    /\ UNCHANGED <<clock, notHistory>>

\* the calendar date changes
Midnight ==
    /\ clock < MaxDay
    /\ clock' = clock + 1
    /\ UNCHANGED <<files, saver, completed, notHistory>>

NextHistory ==
    \/ \E s \in Sessions : StartSave(s)
    \/ \E s \in Sessions : ReadFile(s)
    \/ \E s \in Sessions : OpenForWrite(s)
    \/ \E s \in Sessions : Dump(s)
    \/ Midnight

SpecHistory == InitHistory /\ [][NextHistory]_vars

\* ------------------------------------------------------------------ C10
\* the entries of seq whose partition is day, in order
RECURSIVE SelectDay(_, _)
SelectDay(seq, day) ==
    IF seq = <<>> THEN <<>>
    ELSE IF date_str(Head(seq)) = day
    THEN <<Head(seq)>> \o SelectDay(Tail(seq), day)
    ELSE SelectDay(Tail(seq), day)

\* C10: once a save has completed for an entry, the entry stays, unchanged,
\* in the file of the calendar date of its timestamp after every later
\* save, and the entries of a file are in save order, also when the saves
\* of two sessions for one date interleave their reads and writes.
C10_SavedEntriesStay ==
    (\A s \in Sessions : saver[s].pc = "idle") =>
        \A day \in 0..MaxDay : files[day].entries = SelectDay(completed, day)

\* ====================== specification: one call of interpret_relative_time
InitTime ==
    /\ cb_call \in [query : Queries, content : {[kind |-> "text"]}, now : Nows]
    /\ cb_out = NoAnswer
    /\ irt_out = NotInterpreted
    /\ IdleResolve
    /\ IdleClient
    /\ IdleFetch
    /\ IdleSession
    /\ IdleHistory

CallInterpret ==
    /\ ~irt_out.called
    /\ irt_out' = [called |-> TRUE]
                  @@ interpret_relative_time(cb_call.query, cb_call.now)
    /\ UNCHANGED <<cb_call, cb_out, resolveVars, clientVars, fetchVars,
                   sessionVars, historyVars>>

NextTime == CallInterpret

SpecTime == InitTime /\ [][NextTime]_vars

\* ------------------------------------------------------------------ C11
\* the date-phrase rules in their order of precedence, the phrase of each
\* phrase rule, and the range each rule stands for on the day now
RuleOrder ==
    <<"today", "yesterday", "numeric", "this week", "this month",
      "since start of year", "last year">>
RulePhrase(rule) ==
    IF rule = "today" THEN <<"hoom", "nay">>
    ELSE IF rule = "yesterday" THEN <<"hoom", "qua">>
    ELSE IF rule = "this week" THEN <<"tuaafn", "nafy">>
    ELSE IF rule = "this month" THEN <<"thasng", "nafy">>
    ELSE IF rule = "since start of year" THEN <<"tuwf", "ddaafu", "nawm">>
    ELSE <<"nawm", "ngoasi">>
RuleMatches(rule, text) ==
    IF rule = "numeric"
    THEN \E i \in 1..(Len(text) - 1) :
            text[i] \in DOMAIN Numerals /\ text[i + 1] \in TimeUnits
    ELSE Contains(text, RulePhrase(rule))
Day(y, m, d) == [fmt |-> "%Y-%m-%d", y |-> y, m |-> m, d |-> d]
DayBefore(now, n) ==
    LET dt == fromordinal(toordinal(now) - n) IN Day(dt.y, dt.m, dt.d)
RuleRange(rule, text, now) ==
    IF rule = "today" THEN <<DayBefore(now, 0), DayBefore(now, 0)>>
    ELSE IF rule = "yesterday" THEN <<DayBefore(now, 1), DayBefore(now, 1)>>
    ELSE IF rule = "numeric"
    THEN LET i == CHOOSE i \in 1..(Len(text) - 1) :
                     /\ text[i] \in DOMAIN Numerals /\ text[i + 1] \in TimeUnits
                     /\ \A j \in 1..(i - 1) :
                           ~(text[j] \in DOMAIN Numerals /\ text[j + 1] \in TimeUnits)
             n == Numerals[text[i]]
             unit == text[i + 1]
         IN  <<IF unit = "ngafy" THEN DayBefore(now, n)
               ELSE IF unit = "tuaafn" THEN DayBefore(now, 7 * n)
               ELSE IF unit = "thasng" THEN DayBefore(now, 30 * n)
               ELSE Day(now.y - n + 1, 1, 1),
               DayBefore(now, 0)>>
    ELSE IF rule = "this week"
    THEN <<DayBefore(now, weekday(now)), DayBefore(now, 0)>>
    ELSE IF rule = "this month" THEN <<Day(now.y, now.m, 1), DayBefore(now, 0)>>
    ELSE IF rule = "since start of year" THEN <<Day(now.y, 1, 1), DayBefore(now, 0)>>
    ELSE <<Day(now.y - 1, 1, 1), Day(now.y - 1, 12, 31)>>
MatchingRules(text) ==
    {k \in 1..Len(RuleOrder) : RuleMatches(RuleOrder[k], text)}

\* C11: the range interpret_relative_time returns is the range of the first
\* rule that matches the lower-cased text, in the order today, yesterday,
\* numeric, this week, this month, since start of year, last year; when no
\* rule matches it is the previous 24 hours (with is_latest true) if a
\* recency phrase is present, and (None, None, false) otherwise.
C11_FirstRuleWins ==
    (irt_out.called /\ ~irt_out.raised) =>
        LET text == lower(cb_call.query)
            matching == MatchingRules(text)
        IN  IF matching # {}
            THEN <<irt_out.start, irt_out.end>> =
                     RuleRange(RuleOrder[SetMin(matching)], text, cb_call.now)
            ELSE IF \E p \in RecencyPhrases : Contains(text, p)
            THEN /\ irt_out.start = DayBefore(cb_call.now, 1)
                 /\ irt_out.end = DayBefore(cb_call.now, 0)
                 /\ irt_out.is_latest
            ELSE /\ irt_out.start = NoneDate
                 /\ irt_out.end = NoneDate
                 /\ ~irt_out.is_latest

\* two rules with different ranges match the text and a range is returned
C11_TwoRulesWitness ==
    /\ irt_out.called /\ ~irt_out.raised
    /\ \E j, k \in MatchingRules(lower(cb_call.query)) :
          /\ j < k
          /\ j = SetMin(MatchingRules(lower(cb_call.query)))
          /\ RuleRange(RuleOrder[j], lower(cb_call.query), cb_call.now)
                # RuleRange(RuleOrder[k], lower(cb_call.query), cb_call.now)
          /\ <<irt_out.start, irt_out.end>> =
                RuleRange(RuleOrder[j], lower(cb_call.query), cb_call.now)

\* ------------------------------------------------------------------ C12
\* both dates of the call are valid dates in the layout %Y-%m-%d
ValidDates ==
    /\ ts_call.start.fmt = "%Y-%m-%d"
    /\ IsDate(ts_call.start.y, ts_call.start.m, ts_call.start.d)
    /\ ts_call.end.fmt = "%Y-%m-%d"
    /\ IsDate(ts_call.end.y, ts_call.end.m, ts_call.end.d)
\* the whole days from the start day 00:00:00 to the end day 23:59:59
Span ==
    toordinal([y |-> ts_call.end.y, m |-> ts_call.end.m, d |-> ts_call.end.d])
    - toordinal([y |-> ts_call.start.y, m |-> ts_call.start.m, d |-> ts_call.start.d])
Aggregated(interval) ==
    /\ {"agg", "interval"} \subseteq DOMAIN request.params
    /\ "limit" \notin DOMAIN request.params
    /\ request.params.agg = "AVG"
    /\ request.params.interval = interval

\* C12: for every pair of valid dates get_timeseries sends a request that
\* carries agg = AVG with a 7-day interval when the span exceeds 90 days,
\* with a 1-day interval when it is in 31..90, with a 1-hour interval when
\* it is in 8..30, and no aggregation but limit = 10000 when it is at most
\* 7; it never carries both or neither of (interval, agg) and limit.
C12_AggregationBySpan ==
    (ts_out.called /\ ValidDates) =>
        /\ request.sent
        /\ Span > 90 => Aggregated(7 * 24 * 3600 * 1000)
        /\ (Span > 30 /\ Span <= 90) => Aggregated(24 * 3600 * 1000)
        /\ (Span > 7 /\ Span <= 30) => Aggregated(3600 * 1000)
        /\ Span <= 7 =>
              /\ DOMAIN request.params \cap {"agg", "interval"} = {}
              /\ "limit" \in DOMAIN request.params
              /\ request.params.limit = 10000

\* a span of exactly 90 days is fetched with the 1-day interval
C12_BoundaryWitness ==
    /\ ts_out.called /\ ValidDates /\ request.sent
    /\ Span = 90
    /\ Aggregated(24 * 3600 * 1000)

\* ------------------------------------------------------------------ C13
\* the call was answered with status 200 and a JSON payload
Answered ==
    /\ ts_out.called /\ ~ts_out.raised /\ ValidDates
    /\ ts_call.resp.kind = "http"
    /\ ts_call.resp.status_code = 200
    /\ ts_call.resp.is_json
PayloadPoints ==
    IF ts_call.key \in DOMAIN ts_call.resp.payload
    THEN ts_call.resp.payload[ts_call.key] ELSE <<>>
Occurrences(seq, x) == Cardinality({i \in DOMAIN seq : seq[i] = x})

\* C13: whatever the order of the points in the remote's payload, the
\* timestamps of the series get_timeseries returns are non-decreasing, and
\* the series holds every point of the payload but those whose value is not
\* numeric.
C13_SeriesTimeOrdered ==
    Answered =>
        /\ \A i, j \in DOMAIN ts_out.df :
              i < j => ts_out.df[i].ts.epoch_ms <= ts_out.df[j].ts.epoch_ms
        /\ \A p \in Points :
              Occurrences(ts_out.df, [ts |-> to_datetime(p.ts),
                                      value |-> to_numeric(p.value).x])
                 = IF to_numeric(p.value).nan THEN 0
                   ELSE Cardinality({i \in DOMAIN PayloadPoints :
                            /\ PayloadPoints[i].ts = p.ts
                            /\ ~to_numeric(PayloadPoints[i].value).nan
                            /\ to_numeric(PayloadPoints[i].value).x
                                  = to_numeric(p.value).x})

=============================================================================
